---- MODULE Spec2Model ----
(***************************************************************************)
(* Model of dpfc.py: import of Data Portal For Cities workbooks.           *)
(*                                                                         *)
(* A python dict is a sequence of <<key, value>> pairs with distinct keys, *)
(* in insertion order.  A pandas DataFrame is a record                     *)
(*   [columns |-> sequence of column names, rows |-> sequence of rows]     *)
(* where a row is a sequence of cells aligned with columns.  A worksheet   *)
(* cell is <<>> when empty (pandas reads it as NaN) and <<v>> otherwise.   *)
(* A call that can raise returns a record with an `error` field, "" when   *)
(* the call returned normally.                                             *)
(***************************************************************************)
EXTENDS Integers, Sequences, FiniteSets, TLC

VARIABLES pc,             \* the statement about to run
          location,       \* produce_ground_truth argument
          dir_path,       \* produce_ground_truth argument
          dir_exists,     \* environment: the input directory exists
          out_dir_ok,     \* environment: ./processed_data/ can be written
          listing,        \* environment: what os.listdir returns
          files,          \* local of produce_ground_truth
          idx,            \* position of the for loop in files
          file_path,      \* local of produce_ground_truth
          data,           \* frame returned by extract_dpfc_data
          data_dict,      \* dict returned by convert_dpfc_data
          metadata_dict,  \* dict returned by extract_dpfc_metadata
          muni_data,      \* frame returned by merge_dpfc_metadata
          df,             \* accumulated frame of produce_ground_truth
          csv,            \* files written by to_csv, in order
          raised,         \* the exception that propagated, "" if none
          ret,            \* <<value>> once produce_ground_truth returned
          call_args       \* arguments of merge_dpfc_metadata as passed in

vars == <<pc, location, dir_path, dir_exists, out_dir_ok, listing, files, idx,
          file_path, data, data_dict, metadata_dict, muni_data, df, csv,
          raised, ret, call_args>>

(* ------------------------------ bounds --------------------------------- *)

MaxRows == 2

MaxAmount == 1

MaxFiles == 3

(* --------------------------- python dict ------------------------------- *)

(* a function on 1..n as the sequence of its n values, each computed once *)
AsTuple(f) == <<>> \o f

Has(d, k) == \E j \in 1..Len(d) : d[j][1] = k

Get(d, k) == d[CHOOSE j \in 1..Len(d) : d[j][1] = k][2]

Keys(d) == AsTuple([j \in 1..Len(d) |-> d[j][1]])

(* positions of the items whose key no earlier item has *)
first_positions(items) ==
    LET IsFirst(j) == \A h \in 1..(j - 1) : items[h][1] # items[j][1]
    IN  SelectSeq([j \in 1..Len(items) |-> j], IsFirst)

(* position of the last item with key k *)
last_position(items, k) ==
    CHOOSE j \in 1..Len(items) :
        /\ items[j][1] = k
        /\ \A h \in (j + 1)..Len(items) : items[h][1] # k

dict_build(items, firsts) ==
    AsTuple([p \in 1..Len(firsts) |->
        <<items[firsts[p]][1], items[last_position(items, items[firsts[p]][1])][2]>>])

(* The dict left by assigning items[1], items[2], ... in turn to an empty
   dict: a key keeps the position of its first assignment and the value of
   its last one. *)
dict_from_items(items) == dict_build(items, first_positions(items))

(* d.update(m): d's items followed by the assignments of m's items *)
dict_update(d, m) == dict_from_items(d \o m)

(* --------------------------- DataFrame --------------------------------- *)

EmptyFrame == [columns |-> <<>>, rows |-> <<>>]

InSeq(x, s) == \E j \in 1..Len(s) : s[j] = x

ColIdx(columns, name) == CHOOSE j \in 1..Len(columns) : columns[j] = name

(* df.fillna(0): every NaN cell becomes 0 *)
fillna(cell) == IF cell = <<>> THEN 0 ELSE cell[1]

(* --------------------- convert_dpfc_data tables ------------------------ *)

(* fuels with Kerosene left out of the oil category *)
fuels_oil_without_kerosene ==
    << <<"electricity", <<"Electricity">> >>,
       <<"district_heating", <<"District heating - hot water",
                               "District heating - steam",
                               "District Cooling">> >>,
       <<"coal", <<"Coal (Bituminous or Black coal)">> >>,
       <<"oil", <<"Diesel oil">> >>,
       <<"natural_gas", <<"Natural gas">> >>,
       <<"lpg", <<"Liquefied Petroleum Gas (LPG)">> >>,
       <<"kerosene", <<"Kerosene">> >>,
       <<"biomass", <<"Wood or wood waste", "Other biogas",
                      "Other Liquid BioFuels">> >> >>

fuels ==
    << <<"electricity", <<"Electricity">> >>,
       <<"district_heating", <<"District heating - hot water",
                               "District heating - steam",
                               "District Cooling">> >>,
       <<"coal", <<"Coal (Bituminous or Black coal)">> >>,
       <<"oil", <<"Diesel oil", "Kerosene">> >>,
       <<"natural_gas", <<"Natural gas">> >>,
       <<"lpg", <<"Liquefied Petroleum Gas (LPG)">> >>,
       <<"kerosene", <<"Kerosene">> >>,
       <<"biomass", <<"Wood or wood waste", "Other biogas",
                      "Other Liquid BioFuels">> >> >>

sectors ==
    << <<"Residential Buildings", "RES">>,
       <<"Commercial Buildings", "COM">>,
       <<"Institutional Buildings", "MUN">>,
       <<"Industry", "IND">>,
       <<"Agriculture, Forestry and Fisheries", "AFF">> >>

DataColumns == <<"CRF - Sub-sector", "Fuel type or activity", "Activity data - Amount">>

(* the sector filter forgotten: every row counts for every sector *)
filter_sector_unfiltered(frame, sect) == frame

(* data = df[df['CRF - Sub-sector'] == sect] *)
filter_sector(frame, sect) ==
    LET c == ColIdx(frame.columns, "CRF - Sub-sector")
        Test(r) == r[c] = sect
    IN  [columns |-> frame.columns, rows |-> SelectSeq(frame.rows, Test)]

(* data[data['Fuel type or activity'] == ftype]['Activity data - Amount'].values[0]
   guarded by `ftype in data['Fuel type or activity'].values` *)
ftype_energy(sdata, ftype) ==
    LET f == ColIdx(sdata.columns, "Fuel type or activity")
        a == ColIdx(sdata.columns, "Activity data - Amount")
        Test(r) == r[f] = ftype
        hits == SelectSeq(sdata.rows, Test)
    IN  IF hits # <<>> THEN hits[1][a] ELSE 0

RECURSIVE total_energy(_, _)
total_energy(sdata, ftypes) ==
    IF ftypes = <<>> THEN 0
    ELSE ftype_energy(sdata, ftypes[1]) + total_energy(sdata, Tail(ftypes))

(* the key built from the sector code alone *)
entry_key_code_only(code, category) == code

entry_key(code, category) == code \o "-" \o category

(* the assignments entry[f'{sectors[sect]}-{category}'] = total_energy, in
   the order of the two nested loops over sectors and fuels *)
convert_items(frame) ==
    AsTuple([n \in 1..(Len(sectors) * Len(fuels)) |->
        LET s == ((n - 1) \div Len(fuels)) + 1
            c == ((n - 1) % Len(fuels)) + 1
        IN  <<entry_key(sectors[s][2], fuels[c][1]),
              total_energy(filter_sector(frame, sectors[s][1]), fuels[c][2])>>])

convert_dpfc_data(frame) ==
    IF \A n \in 1..Len(DataColumns) : InSeq(DataColumns[n], frame.columns)
    THEN [error |-> "", value |-> dict_from_items(convert_items(frame))]
    ELSE [error |-> "KeyError", value |-> <<>>]

(* --------------------- merge_dpfc_metadata ----------------------------- *)

col_order ==
    <<"city", "year", "city_id", "RES-electricity", "COM-electricity",
      "MUN-electricity", "IND-electricity", "AFF-electricity", "RES-coal",
      "COM-coal", "MUN-coal", "IND-coal", "AFF-coal", "RES-natural_gas",
      "COM-natural_gas", "MUN-natural_gas", "IND-natural_gas",
      "AFF-natural_gas", "RES-oil", "COM-oil", "MUN-oil", "IND-oil",
      "AFF-oil", "RES-kerosene", "COM-kerosene", "MUN-kerosene",
      "IND-kerosene", "AFF-kerosene", "RES-lpg", "COM-lpg", "MUN-lpg",
      "IND-lpg", "AFF-lpg", "RES-biomass", "COM-biomass", "MUN-biomass",
      "IND-biomass", "AFF-biomass", "RES-district_heating",
      "COM-district_heating", "MUN-district_heating", "IND-district_heating",
      "AFF-district_heating">>

(* pd.DataFrame(d, index=[0]): one row, the columns in the dict's key order *)
frame_of_dict(d) ==
    [columns |-> Keys(d), rows |-> << AsTuple([j \in 1..Len(d) |-> d[j][2]]) >>]

(* the projection forgotten: the frame keeps the dict's column order *)
project_columns_skipped(frame, cols) == [error |-> "", value |-> frame]

(* reindex instead of indexing: a missing column is filled with NaN *)
project_columns_reindex(frame, cols) ==
    [error |-> "",
     value |-> [columns |-> cols,
                rows |-> [r \in 1..Len(frame.rows) |->
                            [n \in 1..Len(cols) |->
                               IF InSeq(cols[n], frame.columns)
                               THEN frame.rows[r][ColIdx(frame.columns, cols[n])]
                               ELSE "NaN"]]]]

(* df[cols]: the listed columns in the listed order; KeyError when a listed
   column is not in the frame *)
project_columns(frame, cols) ==
    IF \A n \in 1..Len(cols) : InSeq(cols[n], frame.columns)
    THEN [error |-> "",
          value |-> [columns |-> cols,
                     rows |-> AsTuple([r \in 1..Len(frame.rows) |->
                                 AsTuple([n \in 1..Len(cols) |->
                                    frame.rows[r][ColIdx(frame.columns, cols[n])]])])]]
    ELSE [error |-> "KeyError", value |-> EmptyFrame]

merge_return(merged, r) ==
    [error |-> r.error, value |-> r.value, data_dict |-> merged]

(* lines 80-93 on the merged dict *)
merge_project(merged) ==
    merge_return(merged, project_columns(frame_of_dict(merged), col_order))

(* the union taken on a copy: the caller's dict is left as passed in *)
merge_dpfc_metadata_on_copy(d, m) ==
    [merge_project(dict_update(d, m)) EXCEPT !.data_dict = d]

(* data_dict.update(metadata_dict) changes the caller's dict, which is the
   `data_dict` field of the result whether or not the projection raises *)
merge_dpfc_metadata(d, m) == merge_project(dict_update(d, m))

(* ------------------ workbooks and the two extractors ------------------- *)

(* A workbook is [eCRF_3 |-> s3, eCRF_1 |-> s1]; a sheet is <<>> when the
   workbook has no sheet of that name and <<sheet>> otherwise.  eCRF_3 is
   kept to its columns D, F, H: [header |-> names, rows |-> rows of cells].
   eCRF_1 is a grid, a sequence of equally long rows of cells. *)

(* pd.read_excel(sheet_name="eCRF_3", usecols='D,F,H').fillna(0) *)
extract_dpfc_data(wb) ==
    IF wb.eCRF_3 = <<>>
    THEN [error |-> "ValueError", value |-> EmptyFrame]
    ELSE LET sh == wb.eCRF_3[1]
         IN  [error |-> "",
              value |-> [columns |-> sh.header,
                         rows |-> AsTuple([r \in 1..Len(sh.rows) |->
                                     AsTuple([c \in 1..Len(sh.rows[r]) |->
                                        fillna(sh.rows[r][c])])])]]

(* df[col][row] on the header-less grid, both labels counted from 0 *)
grid_has(grid, col, row) ==
    /\ row + 1 \in 1..Len(grid)
    /\ col + 1 \in 1..Len(grid[row + 1])

grid_cell(grid, col, row) ==
    LET cell == grid[row + 1][col + 1]
    IN  IF cell = <<>> THEN "NaN" ELSE cell[1]

extract_dpfc_metadata(wb) ==
    IF wb.eCRF_1 = <<>>
    THEN [error |-> "ValueError", value |-> <<>>]
    ELSE LET grid == wb.eCRF_1[1]
         IN  IF grid_has(grid, 2, 1) /\ grid_has(grid, 2, 4) /\ grid_has(grid, 2, 6)
             THEN [error |-> "",
                   value |-> << <<"city", grid_cell(grid, 2, 1)>>,
                                <<"city_id", grid_cell(grid, 2, 4)>>,
                                <<"year", grid_cell(grid, 2, 6)>> >>]
             ELSE [error |-> "KeyError", value |-> <<>>]

(* a row of frame laid out on the columns cols, NaN where frame lacks one *)
align_row(frame, row, cols) ==
    AsTuple([n \in 1..Len(cols) |->
        IF InSeq(cols[n], frame.columns)
        THEN row[ColIdx(frame.columns, cols[n])]
        ELSE "NaN"])

concat_rows(a, b, cols) ==
    [columns |-> cols,
     rows |-> [r \in 1..Len(a.rows) |-> align_row(a, a.rows[r], cols)]
              \o [r \in 1..Len(b.rows) |-> align_row(b, b.rows[r], cols)]]

union_columns(a, b) ==
    LET IsNew(c) == ~InSeq(c, a.columns)
    IN  a.columns \o SelectSeq(b.columns, IsNew)

(* pd.concat([b, a]): the new row put first *)
concat_prepend(a, b) == concat_rows(b, a, union_columns(b, a))

(* pd.concat([a, b]): a's columns then b's new ones, a's rows then b's,
   NaN where a frame lacks a column *)
concat(a, b) == concat_rows(a, b, union_columns(a, b))

(* f'{dir_path}ground_truth_{location}/' *)
input_directory(loc, dir) == dir \o "ground_truth_" \o loc \o "/"

(* os.path.join(directory, file), directory ending in the separator *)
path_join(directory, file) == directory \o file

(* f'./processed_data/ground_truth_{location}.csv' *)
output_path(loc, dir) == "./processed_data/ground_truth_" \o loc \o ".csv"

(* --------------------------- specification ----------------------------- *)

Amounts == 0..MaxAmount

SubSectorLabels == {"Residential Buildings", "Industry", "Transport"}

FuelLabels == {"Electricity", "Diesel oil", "Kerosene", "Peat"}

DataRows == SubSectorLabels \X FuelLabels \X Amounts

DataFrames == { [columns |-> DataColumns, rows |-> r] :
                  r \in UNION { [1..n -> DataRows] : n \in 0..MaxRows } }

Idle ==
    /\ location = "" /\ dir_path = "" /\ listing = <<>> /\ files = <<>>
    /\ dir_exists = TRUE /\ out_dir_ok = TRUE
    /\ idx = 0 /\ file_path = "" /\ df = EmptyFrame /\ csv = <<>>
    /\ raised = "" /\ ret = <<>> /\ call_args = <<>>

InitConvert ==
    /\ pc = "convert"
    /\ data \in DataFrames
    /\ data_dict = <<>> /\ metadata_dict = <<>> /\ muni_data = EmptyFrame
    /\ Idle

ConvertCall ==
    /\ pc = "convert"
    /\ \E r \in {convert_dpfc_data(data)} :
           /\ data_dict' = r.value
           /\ raised' = r.error
    /\ pc' = "converted"
    /\ UNCHANGED <<location, dir_path, dir_exists, out_dir_ok, listing, files,
                   idx, file_path, data, metadata_dict, muni_data, df, csv,
                   ret, call_args>>

NextConvert == ConvertCall

SpecConvert == InitConvert /\ [][NextConvert]_vars


(* ------------------- merge_dpfc_metadata on its own -------------------- *)

(* the 40 keys in three insertion orders: as convert_dpfc_data inserts
   them, reversed, and as col_order lists them *)
KeyOrders ==
    LET made == Keys(convert_dpfc_data([columns |-> DataColumns, rows |-> <<>>]).value)
    IN  { made,
          [j \in 1..Len(made) |-> made[Len(made) + 1 - j]],
          SubSeq(col_order, 4, Len(col_order)) }

ValuePatterns == { [j \in 1..40 |-> 0], [j \in 1..40 |-> j % (MaxAmount + 1)] }

DroppedKeys == {"", "RES-electricity", "IND-oil", "AFF-district_heating"}

ExtraItems == { <<>>, << <<"city", 7>> >>, << <<"notes", 1>> >> }

DataDicts ==
    { LET Keep(item) == item[1] # drop
      IN  SelectSeq([j \in 1..Len(ks) |-> <<ks[j], vp[j]>>], Keep) \o extra :
        ks \in KeyOrders, vp \in ValuePatterns, drop \in DroppedKeys, extra \in ExtraItems }

MetadataItems ==
    { << <<"city", "X">>, <<"city_id", "42">>, <<"year", 2020>> >>,
      << <<"city", "Medan">>, <<"city_id", "ID-2">>, <<"year", 2019>> >> }

MetadataOrders ==
    { <<1, 2, 3>>, <<1, 3, 2>>, <<2, 1, 3>>, <<2, 3, 1>>, <<3, 1, 2>>, <<3, 2, 1>>,
      <<1, 2>>, <<3, 1>>, <<2, 3>> }

MetadataDicts ==
    { [j \in 1..Len(o) |-> items[o[j]]] : items \in MetadataItems, o \in MetadataOrders }

InitMerge ==
    /\ pc = "merge"
    /\ data = EmptyFrame
    /\ data_dict \in DataDicts
    /\ metadata_dict \in MetadataDicts
    /\ muni_data = EmptyFrame
    /\ Idle

MergeCall ==
    /\ pc = "merge"
    /\ call_args' = <<data_dict, metadata_dict>>
    /\ \E r \in {merge_dpfc_metadata(data_dict, metadata_dict)} :
           /\ data_dict' = r.data_dict
           /\ muni_data' = r.value
           /\ raised' = r.error
    /\ pc' = "merged"
    /\ UNCHANGED <<location, dir_path, dir_exists, out_dir_ok, listing, files,
                   idx, file_path, data, metadata_dict, df, csv, ret>>

NextMerge == MergeCall

SpecMerge == InitMerge /\ [][NextMerge]_vars


(* ------------------------ produce_ground_truth ------------------------- *)

MetaGrid(city, city_id, year) ==
    << << <<>>, <<>>, <<>> >>,
       << <<>>, <<"Name">>, <<city>> >>,
       << <<>>, <<"Country">>, <<"Indonesia">> >>,
       << <<>>, <<"Region">>, <<>> >>,
       << <<>>, <<"ID">>, <<city_id>> >>,
       << <<>>, <<"Population">>, <<>> >>,
       << <<>>, <<"Year">>, <<year>> >> >>

DataSheet(rows) == [header |-> DataColumns, rows |-> rows]

(* the workbooks the input directory can hold, by file name *)
Workbook(name) ==
    CASE name = "bandung.xlsx" ->
            [eCRF_3 |-> << DataSheet(<<
                  << <<"Residential Buildings">>, <<"Electricity">>, <<100>> >>,
                  << <<"Residential Buildings">>, <<"Kerosene">>, <<10>> >>,
                  << <<"Residential Buildings">>, <<"Diesel oil">>, <<5>> >>,
                  << <<"Industry">>, <<"Coal (Bituminous or Black coal)">>, <<>> >> >>) >>,
             eCRF_1 |-> << MetaGrid("Bandung", "ID-1", 2019) >>]
      [] name = "medan.xlsx" ->
            [eCRF_3 |-> << DataSheet(<<
                  << <<"Commercial Buildings">>, <<"Natural gas">>, <<7>> >>,
                  << <<"On-road transportation">>, <<"Diesel oil">>, <<3>> >> >>) >>,
             eCRF_1 |-> << MetaGrid("Medan", "ID-2", 2019) >>]
      [] name = "depok.xlsx" ->
            [eCRF_3 |-> << DataSheet(<<>>) >>,
             eCRF_1 |-> << MetaGrid("Depok", "ID-3", 2020) >>]
      [] name = "no_data_sheet.xlsx" ->
            [eCRF_3 |-> <<>>,
             eCRF_1 |-> << MetaGrid("Bogor", "ID-4", 2020) >>]
      [] name = "other_header.xlsx" ->
            [eCRF_3 |-> << [header |-> <<"Sector", "Fuel", "Amount">>,
                            rows |-> << << <<"Industry">>, <<"Electricity">>, <<4>> >> >>] >>,
             eCRF_1 |-> << MetaGrid("Bekasi", "ID-5", 2020) >>]
      [] name = "no_meta_sheet.xlsx" ->
            [eCRF_3 |-> << DataSheet(<<
                  << <<"Industry">>, <<"Electricity">>, <<4>> >> >>) >>,
             eCRF_1 |-> <<>>]
      [] name = "short_meta.xlsx" ->
            [eCRF_3 |-> << DataSheet(<<
                  << <<"Industry">>, <<"Electricity">>, <<4>> >> >>) >>,
             eCRF_1 |-> << SubSeq(MetaGrid("Serang", "ID-7", 2020), 1, 5) >>]

FileNames == {"bandung.xlsx", "medan.xlsx", "depok.xlsx", "no_data_sheet.xlsx",
              "other_header.xlsx", "no_meta_sheet.xlsx", "short_meta.xlsx"}

Locations == {"java", "sumatra"}

DirPaths == {"./data/", "/srv/dpfc/"}

(* os.listdir: distinct names, in an order the file system chooses *)
Listings ==
    { l \in UNION { [1..n -> FileNames] : n \in 0..MaxFiles } :
        \A i, j \in 1..Len(l) : i # j => l[i] # l[j] }

Init ==
    /\ pc = "start"
    /\ location \in Locations
    /\ dir_path \in DirPaths
    /\ dir_exists \in BOOLEAN
    /\ out_dir_ok \in BOOLEAN
    /\ listing \in Listings
    /\ (~dir_exists => listing = <<>>)
    /\ files = <<>> /\ idx = 0 /\ file_path = ""
    /\ data = EmptyFrame /\ data_dict = <<>> /\ metadata_dict = <<>>
    /\ muni_data = EmptyFrame /\ df = EmptyFrame
    /\ csv = <<>> /\ raised = "" /\ ret = <<>> /\ call_args = <<>>

(* lines 102-104 *)
ListDir ==
    /\ pc = "start"
    /\ IF dir_exists
       THEN /\ files' = listing
            /\ df' = EmptyFrame
            /\ idx' = 1
            /\ pc' = "for"
            /\ UNCHANGED raised
       ELSE /\ raised' = "FileNotFoundError"
            /\ pc' = "raised"
            /\ UNCHANGED <<files, df, idx>>
    /\ UNCHANGED <<location, dir_path, dir_exists, out_dir_ok, listing, file_path,
                   data, data_dict, metadata_dict, muni_data, csv, ret, call_args>>

(* a failed read caught and the file skipped *)
ExtractData_skip_on_error ==
    /\ pc = "for"
    /\ idx <= Len(files)
    /\ file_path' = path_join(input_directory(location, dir_path), files[idx])
    /\ \E r \in {extract_dpfc_data(Workbook(files[idx]))} :
           IF r.error = ""
           THEN data' = r.value /\ pc' = "convert_data" /\ UNCHANGED idx
           ELSE idx' = idx + 1 /\ pc' = "for" /\ UNCHANGED data
    /\ UNCHANGED <<location, dir_path, dir_exists, out_dir_ok, listing, files,
                   data_dict, metadata_dict, muni_data, df, csv, raised, ret,
                   call_args>>

(* lines 105-107 *)
ExtractData ==
    /\ pc = "for"
    /\ idx <= Len(files)
    /\ file_path' = path_join(input_directory(location, dir_path), files[idx])
    /\ \E r \in {extract_dpfc_data(Workbook(files[idx]))} :
           IF r.error = ""
           THEN data' = r.value /\ pc' = "convert_data" /\ UNCHANGED raised
           ELSE raised' = r.error /\ pc' = "raised" /\ UNCHANGED data
    /\ UNCHANGED <<location, dir_path, dir_exists, out_dir_ok, listing, files, idx,
                   data_dict, metadata_dict, muni_data, df, csv, ret, call_args>>

(* line 108 *)
ConvertData ==
    /\ pc = "convert_data"
    /\ \E r \in {convert_dpfc_data(data)} :
           IF r.error = ""
           THEN data_dict' = r.value /\ pc' = "extract_metadata" /\ UNCHANGED raised
           ELSE raised' = r.error /\ pc' = "raised" /\ UNCHANGED data_dict
    /\ UNCHANGED <<location, dir_path, dir_exists, out_dir_ok, listing, files, idx,
                   file_path, data, metadata_dict, muni_data, df, csv, ret, call_args>>

(* line 109 *)
ExtractMetadata ==
    /\ pc = "extract_metadata"
    /\ \E r \in {extract_dpfc_metadata(Workbook(files[idx]))} :
           IF r.error = ""
           THEN metadata_dict' = r.value /\ pc' = "merge_metadata" /\ UNCHANGED raised
           ELSE raised' = r.error /\ pc' = "raised" /\ UNCHANGED metadata_dict
    /\ UNCHANGED <<location, dir_path, dir_exists, out_dir_ok, listing, files, idx,
                   file_path, data, data_dict, muni_data, df, csv, ret, call_args>>

(* line 110 *)
MergeMetadata ==
    /\ pc = "merge_metadata"
    /\ call_args' = <<data_dict, metadata_dict>>
    /\ \E r \in {merge_dpfc_metadata(data_dict, metadata_dict)} :
           /\ data_dict' = r.data_dict
           /\ IF r.error = ""
              THEN muni_data' = r.value /\ pc' = "concat" /\ UNCHANGED raised
              ELSE raised' = r.error /\ pc' = "raised" /\ UNCHANGED muni_data
    /\ UNCHANGED <<location, dir_path, dir_exists, out_dir_ok, listing, files, idx,
                   file_path, data, metadata_dict, df, csv, ret>>

(* line 111, and the step of the for loop to the next file *)
Concat ==
    /\ pc = "concat"
    /\ df' = concat(df, muni_data)
    /\ idx' = idx + 1
    /\ pc' = "for"
    /\ UNCHANGED <<location, dir_path, dir_exists, out_dir_ok, listing, files,
                   file_path, data, data_dict, metadata_dict, muni_data, csv,
                   raised, ret, call_args>>

(* line 112: to_csv(index=False) writes the header and the rows, no index *)
WriteCsv ==
    /\ pc = "for"
    /\ idx > Len(files)
    /\ IF out_dir_ok
       THEN /\ csv' = Append(csv, [path |-> output_path(location, dir_path),
                                   header |-> df.columns,
                                   rows |-> df.rows])
            /\ pc' = "return"
            /\ UNCHANGED raised
       ELSE /\ raised' = "OSError"
            /\ pc' = "raised"
            /\ UNCHANGED csv
    /\ UNCHANGED <<location, dir_path, dir_exists, out_dir_ok, listing, files, idx,
                   file_path, data, data_dict, metadata_dict, muni_data, df, ret,
                   call_args>>

(* line 113 *)
Return ==
    /\ pc = "return"
    /\ ret' = <<df>>
    /\ pc' = "done"
    /\ UNCHANGED <<location, dir_path, dir_exists, out_dir_ok, listing, files, idx,
                   file_path, data, data_dict, metadata_dict, muni_data, df, csv,
                   raised, call_args>>

Next ==
    \/ ListDir
    \/ ExtractData
    \/ ConvertData
    \/ ExtractMetadata
    \/ MergeMetadata
    \/ Concat
    \/ WriteCsv
    \/ Return

Spec == Init /\ [][Next]_vars


(* ============================ properties =============================== *)

SeqToSet(q) == { q[j] : j \in 1..Len(q) }

SectorCodes == {"RES", "COM", "MUN", "IND", "AFF"}

FuelCategories == {"electricity", "district_heating", "coal", "oil",
                   "natural_gas", "lpg", "kerosene", "biomass"}

FortyKeys == { sc \o "-" \o fc : sc \in SectorCodes, fc \in FuelCategories }

(* rows of the well-formed data frame are <<sub-sector, fuel type, amount>> *)
RECURSIVE RowSum(_, _, _)
RowSum(rows, sect, labels) ==
    IF rows = <<>> THEN 0
    ELSE (IF rows[1][1] = sect /\ rows[1][2] \in labels THEN rows[1][3] ELSE 0)
         + RowSum(Tail(rows), sect, labels)

SectorRows(rows, sect) ==
    LET Test(r) == r[1] = sect IN SelectSeq(rows, Test)

(* C1: every value convert_dpfc_data emits for a sector and a fuel category
   is the sum of the amount over every row of that sector whose fuel type is
   in the category's label list, also when a (sub-sector, fuel type) pair
   occurs in more than one row. *)
C1_SumOverEveryRow ==
    pc = "converted" =>
        \A s \in 1..Len(sectors), c \in 1..Len(fuels) :
            Get(data_dict, sectors[s][2] \o "-" \o fuels[c][1])
                = RowSum(data.rows, sectors[s][1], SeqToSet(fuels[c][2]))

(* C2: when the only rows of a sector are Kerosene = k and Diesel oil = d,
   the sector's kerosene value is k and its oil value is d + k. *)
C2_KeroseneCountedTwice ==
    pc = "converted" =>
        \A s \in 1..Len(sectors), k \in Amounts, d \in Amounts :
            LET ker == <<sectors[s][1], "Kerosene", k>>
                die == <<sectors[s][1], "Diesel oil", d>>
            IN  SectorRows(data.rows, sectors[s][1]) \in { <<ker, die>>, <<die, ker>> }
                => /\ Get(data_dict, sectors[s][2] \o "-kerosene") = k
                   /\ Get(data_dict, sectors[s][2] \o "-oil") = d + k

C2_Witness ==
    /\ pc = "converted"
    /\ data.rows = << <<"Industry", "Diesel oil", 1>>, <<"Industry", "Kerosene", 1>> >>
    /\ Get(data_dict, "IND-oil") = 2
    /\ Get(data_dict, "IND-kerosene") = 1

(* C3: convert_dpfc_data returns exactly the 40 keys sector code - fuel
   category, whatever the rows and their labels, and no value is negative
   when no amount is. *)
C3_FortyKeys ==
    pc = "converted" =>
        /\ raised = ""
        /\ Len(data_dict) = 40
        /\ SeqToSet(Keys(data_dict)) = FortyKeys
        /\ Cardinality(FortyKeys) = 40
        /\ \A j \in 1..Len(data_dict) : data_dict[j][2] >= 0

C3_Witness ==
    /\ pc = "converted"
    /\ \E j \in 1..Len(data.rows) :
          data.rows[j][1] = "Transport" /\ data.rows[j][2] = "Peat" /\ data.rows[j][3] > 0
    /\ \E j \in 1..Len(data.rows) : data.rows[j][1] = "Residential Buildings"

(* C4: a sector without rows has all 8 values 0 whatever the other sectors
   hold, and a category none of whose labels occurs among a sector's rows
   has value 0 for that sector; neither raises. *)
C4_AbsentIsZero ==
    pc = "converted" =>
        /\ raised = ""
        /\ \A s \in 1..Len(sectors) :
              SectorRows(data.rows, sectors[s][1]) = <<>>
              => \A fc \in FuelCategories : Get(data_dict, sectors[s][2] \o "-" \o fc) = 0
        /\ \A s \in 1..Len(sectors), c \in 1..Len(fuels) :
              (\A j \in 1..Len(data.rows) :
                  ~(data.rows[j][1] = sectors[s][1] /\ InSeq(data.rows[j][2], fuels[c][2])))
              => Get(data_dict, sectors[s][2] \o "-" \o fuels[c][1]) = 0

C4_Witness ==
    /\ pc = "converted"
    /\ SectorRows(data.rows, "Residential Buildings") = <<>>
    /\ Get(data_dict, "IND-electricity") > 0
    /\ Get(data_dict, "IND-oil") = 0

FuelGroupOrder == <<"electricity", "coal", "natural_gas", "oil", "kerosene",
                    "lpg", "biomass", "district_heating">>

SectorOrder == <<"RES", "COM", "MUN", "IND", "AFF">>

ExpectedColumns ==
    <<"city", "year", "city_id">>
    \o [n \in 1..(Len(FuelGroupOrder) * Len(SectorOrder)) |->
          SectorOrder[((n - 1) % Len(SectorOrder)) + 1] \o "-"
          \o FuelGroupOrder[((n - 1) \div Len(SectorOrder)) + 1]]

MetadataKeys == {"city", "city_id", "year"}

(* the value the two mappings passed to merge_dpfc_metadata give for a key *)
GivenValue(k) ==
    IF Has(call_args[2], k) THEN Get(call_args[2], k) ELSE Get(call_args[1], k)

(* C5: given the 40 sector-fuel keys and the 3 metadata keys in any insertion
   order, merge_dpfc_metadata returns one row whose columns are city, year,
   city_id and then the fuel groups electricity, coal, natural_gas, oil,
   kerosene, lpg, biomass, district_heating, each with RES, COM, MUN, IND,
   AFF, every column holding the value given for its key; all-zero data with
   metadata X, 42, 2020 gives X, 2020, 42 and 40 zeros. *)
C5_FixedColumnOrder ==
    (/\ pc = "merged"
     /\ \A k \in FortyKeys : Has(call_args[1], k)
     /\ SeqToSet(Keys(call_args[2])) = MetadataKeys)
    => /\ raised = ""
       /\ muni_data.columns = ExpectedColumns
       /\ Len(muni_data.columns) = 43
       /\ Len(muni_data.rows) = 1
       /\ \A n \in 1..Len(ExpectedColumns) :
             muni_data.rows[1][n] = GivenValue(ExpectedColumns[n])
       /\ ((/\ \A k \in FortyKeys : Get(call_args[1], k) = 0
            /\ Get(call_args[2], "city") = "X"
            /\ Get(call_args[2], "city_id") = "42"
            /\ Get(call_args[2], "year") = 2020)
           => muni_data.rows[1] = <<"X", 2020, "42">> \o [j \in 1..40 |-> 0])

C5_Witness ==
    /\ pc = "merged"
    /\ \A k \in FortyKeys : Has(call_args[1], k) /\ Get(call_args[1], k) = 0
    /\ call_args[1][1][1] = "AFF-biomass"
    /\ call_args[2] = << <<"year", 2020>>, <<"city", "X">>, <<"city_id", "42">> >>
    /\ muni_data.rows = << <<"X", 2020, "42">> \o [j \in 1..40 |-> 0] >>

(* C6: when one of the 43 expected keys is in neither mapping,
   merge_dpfc_metadata raises and returns no record. *)
C6_MissingColumnRaises ==
    (/\ pc = "merged"
     /\ \E k \in SeqToSet(ExpectedColumns) :
           ~Has(call_args[1], k) /\ ~Has(call_args[2], k))
    => /\ raised # ""
       /\ muni_data = EmptyFrame

C6_Witness ==
    /\ pc = "merged"
    /\ ~Has(call_args[1], "IND-oil")
    /\ SeqToSet(Keys(call_args[2])) = MetadataKeys
    /\ raised = "KeyError"

(* the row the pipeline of lines 107-110 builds from one file *)
CityRecord(name) ==
    merge_dpfc_metadata(
        convert_dpfc_data(extract_dpfc_data(Workbook(name)).value).value,
        extract_dpfc_metadata(Workbook(name)).value).value.rows[1]

(* C7: when every file processes without error, the table returned and
   written has one row per file of the listing, the i-th row built from the
   i-th file; an empty listing gives a table without rows. *)
C7_RowPerFileInOrder ==
    pc = "done" =>
        /\ Len(ret) = 1
        /\ Len(ret[1].rows) = Len(listing)
        /\ \A i \in 1..Len(listing) : ret[1].rows[i] = CityRecord(listing[i])
        /\ Len(csv) = 1
        /\ csv[1].rows = ret[1].rows

C7_Witness ==
    /\ pc = "done"
    /\ Len(listing) >= 2
    /\ listing[1] = "medan.xlsx"
    /\ ret[1].rows[1][1] = "Medan"

FileFails(name) ==
    \E d \in {extract_dpfc_data(Workbook(name))},
       m \in {extract_dpfc_metadata(Workbook(name))} :
        \/ d.error # ""
        \/ m.error # ""
        \/ \E e \in {convert_dpfc_data(d.value)} :
              \/ e.error # ""
              \/ merge_dpfc_metadata(e.value, m.value).error # ""

(* C8: at the first file whose processing fails the batch stops: no later
   file is begun, the exception leaves produce_ground_truth, and no CSV is
   written, not even with the rows collected before the failure. *)
C8_FailFast ==
    /\ raised # "" => pc = "raised" /\ csv = <<>> /\ ret = <<>>
    /\ \A i \in 1..Len(files) :
          FileFails(files[i])
          => /\ idx <= i
             /\ csv = <<>>
             /\ ret = <<>>
             /\ pc \notin {"return", "done"}

C8_Witness ==
    /\ pc = "raised"
    /\ idx = 2
    /\ Len(files) > 2
    /\ FileFails(files[2])
    /\ Len(df.rows) = 1
    /\ csv = <<>>

(* names a file of the collection can have below a base directory *)
RelativeNames(loc) ==
    { "ground_truth_" \o loc \o ".csv",
      "processed_data/ground_truth_" \o loc \o ".csv",
      "ground_truth_" \o loc \o "/ground_truth_" \o loc \o ".csv" }

(* C9: the CSV is written at dir_path, labelled with location: its path lies
   under the caller's dir_path, so that the same location with another
   dir_path is written elsewhere. *)
C9_OutputUnderDirPath ==
    \A j \in 1..Len(csv) :
        /\ csv[j].path \in { dir_path \o rel : rel \in RelativeNames(location) }
        /\ \A other \in DirPaths \ {dir_path} :
              output_path(location, other) # csv[j].path

(* C10: merge_dpfc_metadata updates the dict it is passed: afterwards that
   dict holds every metadata key with the metadata's value, next to its own
   items, a returned record shows the metadata value where the keys collide,
   and the metadata dict is as it was passed in. *)
C10_UpdatesCallerDict ==
    pc = "merged" =>
        LET d0 == call_args[1]
            m == call_args[2]
        IN  /\ metadata_dict = m
            /\ SeqToSet(Keys(data_dict)) = SeqToSet(Keys(d0)) \cup SeqToSet(Keys(m))
            /\ Len(data_dict) = Cardinality(SeqToSet(Keys(data_dict)))
            /\ \A j \in 1..Len(m) : Get(data_dict, m[j][1]) = m[j][2]
            /\ \A j \in 1..Len(d0) :
                  ~Has(m, d0[j][1]) => Get(data_dict, d0[j][1]) = d0[j][2]
            /\ raised = "" =>
                  \A j \in 1..Len(m) :
                     InSeq(m[j][1], muni_data.columns)
                     => muni_data.rows[1][ColIdx(muni_data.columns, m[j][1])] = m[j][2]

C10_Witness ==
    /\ pc = "merged"
    /\ Has(call_args[1], "city")
    /\ Has(call_args[2], "city")
    /\ raised = ""
    /\ Get(data_dict, "city") = "X"
    /\ Get(data_dict, "year") = 2020

====
